---- MODULE Spec2Model ----
(***************************************************************************)
(* Model of postgresstore.PostgresStore (src/postgresstore/postgresstore.go)*)
(*                                                                         *)
(* The sessions table is a set of rows (token, data, expiry).  Each SQL    *)
(* statement the store issues is one atomic step on that set, evaluated    *)
(* against the database clock `now` (current_timestamp).  The background   *)
(* cleanup goroutine (startCleanup) and a client that calls StopCleanup    *)
(* are processes with explicit positions; the unbuffered channel           *)
(* p.stopCleanup is a rendezvous between the two.  The Go clock driving    *)
(* the ticker and the database clock are the same clock `now`.             *)
(***************************************************************************)
EXTENDS Integers, FiniteSets, TLC

\* ---------------------------------------------------------------- bounds
MaxTime == 2
MaxInterval == 1
MaxStopCalls == 2

\* ---------------------------------------------------------------- values
\* Session tokens and payloads are opaque to the store: it only compares
\* tokens for equality and copies payloads, so two of each give "this token
\* or another" and "this payload or a different one".
Tokens == {"t1", "t2"}
Payloads == {"p1", "p2"}
\* Expiry instants a Commit may carry: the store only compares an expiry with
\* the clock, so three of them give rows that are active, at their boundary
\* and expired at the instants the clock runs through.
Times == {0, 1, 2}
Intervals == 0..MaxInterval

\* nil []byte / nil error / "no token"
Nil == "nil"
\* a non-nil error handed back by database/sql
DbErr == "err"

VARIABLES
    rows,             \* the sessions table: set of [token, data, expiry]
    now,              \* current_timestamp
    cleanupInterval,  \* p.opts.cleanupInterval
    stopCleanup,      \* p.stopCleanup: "nil" or "chan"
    loopPc,           \* cleanup goroutine: none/start/select/sweep/exited
    ticker,           \* the goroutine's ticker: [running, next, c]
    stopWaiting,      \* StopCleanup calls blocked on the send at line 162
    stopCalls,        \* StopCleanup calls begun so far
    hist,             \* per token, the last successful Commit or Delete
    last              \* the last completed step and what it returned

vars == <<rows, now, cleanupInterval, stopCleanup, loopPc, ticker,
          stopWaiting, stopCalls, hist, last>>

\* ------------------------------------------------------------ SQL pieces

\* faulty variant: WHERE current_timestamp <= expiry
ActiveFilterInclusive(r, t) == t <= r.expiry

\* WHERE current_timestamp < expiry
ActiveFilter(r, t) == t < r.expiry

\* faulty variant: WHERE expiry <= current_timestamp
ExpiredFilterInclusive(r, t) == r.expiry <= t

\* WHERE expiry < current_timestamp
ExpiredFilter(r, t) == r.expiry < t

\* the rows a statement's "WHERE token = $1" selects
RowsOf(tbl, token) == {r \in tbl : r.token = token}

\* faulty variant: the SELECT of Find without its expiry condition
FindQueryNoExpiry(tbl, t, token) == RowsOf(tbl, token)

\* SELECT data FROM sessions WHERE token = $1 AND current_timestamp < expiry
FindQuery(tbl, t, token) == {r \in RowsOf(tbl, token) : ActiveFilter(r, t)}

\* faulty variant: the SELECT of All with current_timestamp <= expiry
AllQueryInclusive(tbl, t) == {r \in tbl : t <= r.expiry}

\* SELECT token, data FROM sessions WHERE current_timestamp < expiry
AllQuery(tbl, t) == {r \in tbl : ActiveFilter(r, t)}

\* faulty variant: an upsert whose DO UPDATE sets data and leaves expiry alone
UpsertDataOnly(tbl, token, b, expiry) ==
    IF RowsOf(tbl, token) = {}
    THEN tbl \cup {[token |-> token, data |-> b, expiry |-> expiry]}
    ELSE {IF r.token = token THEN [r EXCEPT !.data = b] ELSE r : r \in tbl}

\* faulty variant: an upsert whose DO UPDATE sets expiry and leaves data alone
UpsertExpiryOnly(tbl, token, b, expiry) ==
    IF RowsOf(tbl, token) = {}
    THEN tbl \cup {[token |-> token, data |-> b, expiry |-> expiry]}
    ELSE {IF r.token = token THEN [r EXCEPT !.expiry = expiry] ELSE r : r \in tbl}

\* faulty variant: a replace done as delete-then-insert that loses the insert
\* when the token was already there
UpsertDropsOnConflict(tbl, token, b, expiry) ==
    IF RowsOf(tbl, token) = {}
    THEN tbl \cup {[token |-> token, data |-> b, expiry |-> expiry]}
    ELSE {r \in tbl : r.token # token}

\* INSERT ... ON CONFLICT (token) DO UPDATE SET data = EXCLUDED.data,
\*                                             expiry = EXCLUDED.expiry
Upsert(tbl, token, b, expiry) ==
    IF RowsOf(tbl, token) = {}
    THEN tbl \cup {[token |-> token, data |-> b, expiry |-> expiry]}
    ELSE {IF r.token = token
          THEN [r EXCEPT !.data = b, !.expiry = expiry]
          ELSE r : r \in tbl}

\* faulty variant: a DELETE by token whose condition matches no row
DeleteByTokenNoMatch(tbl, token) == tbl

\* faulty variant: a DELETE that lost its WHERE clause
DeleteByTokenNoWhere(tbl, token) == {}

\* which arm of the upsert a Commit takes: a plain insert, an update of the
\* conflicting row, or an update that finds the row already as given
UpsertCase(tbl, token, b, expiry) ==
    IF RowsOf(tbl, token) = {} THEN "insert"
    ELSE IF RowsOf(tbl, token) = {[token |-> token, data |-> b, expiry |-> expiry]}
    THEN "same"
    ELSE "update"

\* DELETE FROM sessions WHERE token = $1
DeleteByToken(tbl, token) == {r \in tbl : r.token # token}

\* faulty variant: the bulk delete without its WHERE clause
DeleteExpiredRowsNoWhere(tbl, t) == {}

\* faulty variant: the bulk delete with its comparison turned round
DeleteExpiredRowsInverted(tbl, t) == {r \in tbl : ExpiredFilter(r, t)}

\* DELETE FROM sessions WHERE expiry < current_timestamp
DeleteExpiredRows(tbl, t) == {r \in tbl : ~ExpiredFilter(r, t)}

\* ------------------------------------------------------- return values

NoSessions == [k \in {} |-> Nil]

\* what a call returned: (b, exists, err) for Find, (sessions, err) for All
\* (mapNil: the map is nil), err for the others
Ret(op, token, b, exists, err) ==
    [op |-> op, token |-> token, b |-> b, exists |-> exists, err |-> err,
     mapNil |-> TRUE, sessions |-> NoSessions, upsert |-> "none"]

RetAll(mapNil, sessions, err) ==
    [op |-> "All", token |-> Nil, b |-> Nil, exists |-> FALSE, err |-> err,
     mapNil |-> mapNil, sessions |-> sessions, upsert |-> "none"]

\* faulty variant: the error of the statement is dropped
ExecErrSwallowed(fail) == Nil

\* the error a db.Exec hands back
ExecErr(fail) == IF fail THEN DbErr ELSE Nil

\* Find's three results (lines 62-68); fail = the query returned an error
FindResult(tbl, t, token, fail) ==
    IF fail THEN Ret("Find", token, Nil, FALSE, DbErr)
    ELSE IF FindQuery(tbl, t, token) = {} THEN Ret("Find", token, Nil, FALSE, Nil)
    ELSE LET r == CHOOSE x \in FindQuery(tbl, t, token) : TRUE
         IN Ret("Find", token, r.data, TRUE, Nil)

\* All's result (lines 104-130): the map built row by row
AllResult(tbl, t, fail) ==
    IF fail THEN RetAll(TRUE, NoSessions, DbErr)
    ELSE LET act == AllQuery(tbl, t)
             keys == {r.token : r \in act}
         IN RetAll(FALSE,
                   [k \in keys |-> (CHOOSE r \in act : r.token = k).data],
                   Nil)

\* ------------------------------------------------------------ initial state

NoTicker == [running |-> FALSE, next |-> 0, c |-> FALSE]

\* faulty variant: New spawning the goroutine whatever the interval
SpawnsCleanupAlways(interval) == TRUE

\* New, line 39: the cleanup goroutine is spawned for a positive interval
SpawnsCleanup(interval) == interval > 0

NeverCommitted == [st |-> "never", data |-> Nil, expiry |-> 0]
WasDeleted == [st |-> "deleted", data |-> Nil, expiry |-> 0]
WasCommitted(b, expiry) == [st |-> "committed", data |-> b, expiry |-> expiry]

Init ==
    /\ rows = {}
    /\ now = 0
    /\ cleanupInterval \in Intervals
    /\ stopCleanup = "nil"
    /\ loopPc = IF SpawnsCleanup(cleanupInterval) THEN "start" ELSE "none"
    /\ ticker = NoTicker
    /\ stopWaiting = 0
    /\ stopCalls = 0
    /\ hist = [t \in Tokens |-> NeverCommitted]
    /\ last = Ret("New", Nil, Nil, FALSE, Nil)

\* ------------------------------------------------------------ store calls

\* faulty variant: Find waits for a lock that StopCleanup holds over its send
FindUnderStopLock(token, fail) ==
    /\ stopWaiting = 0
    /\ last' = FindResult(rows, now, token, fail)
    /\ UNCHANGED <<rows, now, cleanupInterval, stopCleanup, loopPc, ticker,
                   stopWaiting, stopCalls, hist>>

Find(token, fail) ==
    /\ last' = FindResult(rows, now, token, fail)
    /\ UNCHANGED <<rows, now, cleanupInterval, stopCleanup, loopPc, ticker,
                   stopWaiting, stopCalls, hist>>

All(fail) ==
    /\ last' = AllResult(rows, now, fail)
    /\ UNCHANGED <<rows, now, cleanupInterval, stopCleanup, loopPc, ticker,
                   stopWaiting, stopCalls, hist>>

Commit(token, b, expiry, fail) ==
    /\ rows' = IF fail THEN rows ELSE Upsert(rows, token, b, expiry)
    /\ last' = [Ret("Commit", token, Nil, FALSE, ExecErr(fail)) EXCEPT
                    !.upsert = IF fail THEN "none"
                               ELSE UpsertCase(rows, token, b, expiry)]
    /\ hist' = IF fail THEN hist
               ELSE [hist EXCEPT ![token] = WasCommitted(b, expiry)]
    /\ UNCHANGED <<now, cleanupInterval, stopCleanup, loopPc, ticker,
                   stopWaiting, stopCalls>>

Delete(token, fail) ==
    /\ rows' = IF fail THEN rows ELSE DeleteByToken(rows, token)
    /\ last' = Ret("Delete", token, Nil, FALSE, ExecErr(fail))
    /\ hist' = IF fail THEN hist ELSE [hist EXCEPT ![token] = WasDeleted]
    /\ UNCHANGED <<now, cleanupInterval, stopCleanup, loopPc, ticker,
                   stopWaiting, stopCalls>>

\* ------------------------------------------------------------ the clock

\* Time passes; a running ticker whose period has elapsed puts a tick in its
\* one-slot channel C (a tick is dropped when the slot is still full).
Tick(tk, t) ==
    IF tk.running /\ t >= tk.next
    THEN [tk EXCEPT !.c = TRUE, !.next = tk.next + cleanupInterval]
    ELSE tk

TimeAdvance ==
    /\ now < MaxTime
    /\ now' = now + 1
    /\ ticker' = Tick(ticker, now + 1)
    /\ last' = Ret("Time", Nil, Nil, FALSE, Nil)
    /\ UNCHANGED <<rows, cleanupInterval, stopCleanup, loopPc,
                   stopWaiting, stopCalls, hist>>

\* ------------------------------------------------------------ cleanup loop

\* startCleanup, lines 134-135: the goroutine creates the channel and the
\* ticker, and reaches the select.
LoopStart ==
    /\ loopPc = "start"
    /\ stopCleanup' = "chan"
    /\ ticker' = [running |-> TRUE, next |-> now + cleanupInterval, c |-> FALSE]
    /\ loopPc' = "select"
    /\ last' = Ret("LoopStart", Nil, Nil, FALSE, Nil)
    /\ UNCHANGED <<rows, now, cleanupInterval, stopWaiting, stopCalls, hist>>

\* select, case <-ticker.C (line 138): the tick is taken from the channel
LoopTick ==
    /\ loopPc = "select"
    /\ ticker.c
    /\ ticker' = [ticker EXCEPT !.c = FALSE]
    /\ loopPc' = "sweep"
    /\ last' = Ret("Tick", Nil, Nil, FALSE, Nil)
    /\ UNCHANGED <<rows, now, cleanupInterval, stopCleanup,
                   stopWaiting, stopCalls, hist>>

\* faulty variant: the goroutine stops its ticker when deleteExpired fails
LoopSweepStopsTickerOnError(fail) ==
    /\ loopPc = "sweep"
    /\ rows' = IF fail THEN rows ELSE DeleteExpiredRows(rows, now)
    /\ loopPc' = "select"
    /\ ticker' = IF fail THEN NoTicker ELSE ticker
    /\ last' = Ret("Sweep", Nil, Nil, FALSE, ExecErr(fail))
    /\ UNCHANGED <<now, cleanupInterval, stopCleanup, stopWaiting, stopCalls, hist>>

\* deleteExpired (lines 139-142, 166-172): the bulk delete runs, its error
\* is logged, and the loop is back at the select
LoopSweep(fail) ==
    /\ loopPc = "sweep"
    /\ rows' = IF fail THEN rows ELSE DeleteExpiredRows(rows, now)
    /\ loopPc' = "select"
    /\ last' = Ret("Sweep", Nil, Nil, FALSE, ExecErr(fail))
    /\ UNCHANGED <<now, cleanupInterval, stopCleanup, ticker,
                   stopWaiting, stopCalls, hist>>

\* ------------------------------------------------------------ StopCleanup

\* faulty variant: StopCleanup without its nil check: it always sends
StopBranchNoNilCheck(ch) == "send"

\* What StopCleanup does with the value it reads from p.stopCleanup
\* (line 161): return at once on nil, otherwise go on to the send.
StopBranch(ch) == IF ch # "nil" THEN "send" ELSE "return"

\* StopCleanup is called (lines 160-161), by any goroutine and whether or
\* not other calls are still blocked: nothing in it excludes a second caller.
\* The read of p.stopCleanup is not synchronised with the goroutine's write
\* at line 134: it yields nil until that write has happened and the channel
\* afterwards.  On nil the call returns; otherwise it joins the senders
\* waiting at line 162.
StopCleanupCall ==
    /\ stopCalls < MaxStopCalls
    /\ stopCalls' = stopCalls + 1
    /\ stopWaiting' = IF StopBranch(stopCleanup) = "send"
                      THEN stopWaiting + 1 ELSE stopWaiting
    /\ last' = IF StopBranch(stopCleanup) = "return"
               THEN Ret("StopCleanup", Nil, Nil, FALSE, Nil)
               ELSE Ret("StopCleanupSend", Nil, Nil, FALSE, Nil)
    /\ UNCHANGED <<rows, now, cleanupInterval, stopCleanup, loopPc, ticker,
                   hist>>

\* faulty variant: the stop case takes the signal and stays in the loop
StopHandoffNoReturn ==
    /\ stopWaiting > 0
    /\ loopPc = "select"
    /\ stopWaiting' = stopWaiting - 1
    /\ last' = Ret("StopCleanup", Nil, Nil, FALSE, Nil)
    /\ UNCHANGED <<rows, now, cleanupInterval, stopCleanup, loopPc, ticker,
                   stopCalls, hist>>

\* The send of one waiting caller (line 162) meets the receive at line 143:
\* the channel is unbuffered, so both happen in one step.  The loop stops its
\* ticker and returns (lines 144-145); that caller's StopCleanup returns, the
\* other senders stay blocked.
StopHandoff ==
    /\ stopWaiting > 0
    /\ loopPc = "select"
    /\ stopWaiting' = stopWaiting - 1
    /\ loopPc' = "exited"
    /\ ticker' = NoTicker
    /\ last' = Ret("StopCleanup", Nil, Nil, FALSE, Nil)
    /\ UNCHANGED <<rows, now, cleanupInterval, stopCleanup, stopCalls, hist>>

\* StopCleanup calls that have returned
StopReturned == stopCalls - stopWaiting

Next ==
    \/ \E t \in Tokens, f \in BOOLEAN : Find(t, f)
    \/ \E f \in BOOLEAN : All(f)
    \/ \E t \in Tokens, b \in Payloads, e \in Times, f \in BOOLEAN : Commit(t, b, e, f)
    \/ \E t \in Tokens, f \in BOOLEAN : Delete(t, f)
    \/ TimeAdvance
    \/ LoopStart
    \/ LoopTick
    \/ \E f \in BOOLEAN : LoopSweep(f)
    \/ StopCleanupCall
    \/ StopHandoff

Spec == Init /\ [][Next]_vars

\* The Go scheduler runs a runnable goroutine, and a statement handed to the
\* database completes: each step of the cleanup goroutine is taken if it
\* stays possible.  Nothing obliges clients to call, or time to pass.
FairSpec ==
    /\ Spec
    /\ WF_vars(LoopStart)
    /\ WF_vars(LoopTick)
    /\ WF_vars(\E f \in BOOLEAN : LoopSweep(f))
    /\ WF_vars(StopHandoff)

\* ================================================================ claims

\* the rows of the table that are active now, for one token
LiveRows(token) == {r \in rows : r.token = token /\ r.expiry > now}

\* the token key is unique (the ON CONFLICT target of Commit)
UniqueTokens == \A t \in Tokens : Cardinality(RowsOf(rows, t)) <= 1

\* what the claims expect of a Find of `token` whose query did not fail:
\* found with the data of the live row, or (nil, false, nil)
FindAsExpected(res, token) ==
    /\ res.err = Nil
    /\ res.exists <=> LiveRows(token) # {}
    /\ res.exists => \A r \in LiveRows(token) : res.b = r.data
    /\ ~res.exists => res.b = Nil

\* C1: a Find whose query succeeds returns (data, true, nil) exactly when the
\* table holds a row for the token with expiry > now, with that row's data;
\* otherwise (nil, false, nil), in particular for a token never committed,
\* deleted, or expired (swept or not).
C1_FindIffLiveRow ==
    /\ \A t \in Tokens : FindAsExpected(FindResult(rows, now, t, FALSE), t)
    /\ (last.op = "Find" /\ last.err = Nil) => FindAsExpected(last, last.token)
    /\ \A t \in Tokens :
          (\/ hist[t].st \in {"never", "deleted"}
           \/ (hist[t].st = "committed" /\ hist[t].expiry <= now))
          => FindResult(rows, now, t, FALSE) = Ret("Find", t, Nil, FALSE, Nil)
    /\ \A t \in Tokens :
          (hist[t].st = "committed" /\ hist[t].expiry > now)
          => FindResult(rows, now, t, FALSE) = Ret("Find", t, hist[t].data, TRUE, Nil)

\* C1 witness: a Find has just returned a payload for one token while the
\* other token's row is expired and still in the table
C1_Witness ==
    /\ last.op = "Find" /\ last.exists /\ last.b \in Payloads
    /\ \E r \in rows : r.token # last.token /\ r.expiry < now

\* what is expected of an All whose query did not fail
AllAsExpected(res) ==
    /\ res.err = Nil
    /\ ~res.mapNil
    /\ DOMAIN res.sessions = {t \in Tokens : LiveRows(t) # {}}
    /\ \A t \in DOMAIN res.sessions : \A r \in LiveRows(t) : res.sessions[t] = r.data

\* C2: an All whose query succeeds returns a non-nil map whose keys are
\* exactly the tokens with a row of expiry > now, each mapped to its row's
\* data; expired rows still in the table are left out; no active row gives
\* the empty map and a nil error.
C2_AllIsActiveSet ==
    /\ AllAsExpected(AllResult(rows, now, FALSE))
    /\ (last.op = "All" /\ last.err = Nil) => AllAsExpected(last)
    /\ (\A r \in rows : r.expiry <= now)
          => AllResult(rows, now, FALSE) = RetAll(FALSE, NoSessions, Nil)

\* C2 witness: All has returned exactly one token while the table also holds
\* an expired row that has not been swept
C2_Witness ==
    /\ last.op = "All" /\ last.err = Nil
    /\ Cardinality(DOMAIN last.sessions) = 1
    /\ \E r \in rows : r.expiry <= now /\ r.token \notin DOMAIN last.sessions

\* the table and the handle after a successful Commit(t, b, e)
CommitPost(t, b, e) ==
    /\ RowsOf(rows', t) = {[token |-> t, data |-> b, expiry |-> e]}
    /\ \A u \in Tokens \ {t} : RowsOf(rows', u) = RowsOf(rows, u)
    /\ FindResult(rows', now', t, FALSE) =
          IF e > now' THEN Ret("Find", t, b, TRUE, Nil)
                      ELSE Ret("Find", t, Nil, FALSE, Nil)
    /\ last'.err = Nil

\* C3: a successful Commit(t, b, e) leaves exactly one row for t, carrying b
\* and e together, whatever row t had before; every other token's rows are
\* unchanged; and Find(t) afterwards can only retrieve b.  (hist' holds the
\* arguments of the Commit that made the step.)
C3_CommitUpserts ==
    /\ [](UniqueTokens)
    /\ [][(last'.op = "Commit" /\ last'.err = Nil) =>
            CommitPost(last'.token, hist'[last'.token].data,
                       hist'[last'.token].expiry)]_vars

\* C3 witness: a Commit has just overwritten the row of a token that now
\* carries its arguments, next to another token's row
C3_Witness ==
    /\ last.op = "Commit" /\ last.err = Nil
    /\ \E r \in rows : r.token = last.token /\ r.data = hist[r.token].data
    /\ \E r \in rows : r.token # last.token

\* C4: on a handle with cleanupInterval > 0, StopCleanup called twice in
\* sequence does not hang: a second call, begun after the first has returned,
\* is never left blocked on its send with the loop gone (after the loop has
\* returned nothing receives from p.stopCleanup again, so a call blocked then
\* never returns).
C4_SecondStopReturns ==
    (/\ cleanupInterval > 0
     /\ stopCalls = 2 /\ StopReturned = 1
     /\ last.op = "StopCleanupSend") => loopPc # "exited"

\* C5: on a handle with cleanupInterval > 0, once a StopCleanup call has
\* returned the loop has consumed the stop signal (it has exited), and no
\* tick is handled and no sweep executed afterwards.
C5_StopReturnMeansStopped ==
    (cleanupInterval > 0 /\ StopReturned > 0) =>
        (loopPc = "exited" /\ last.op \notin {"LoopStart", "Tick", "Sweep"})

\* C6: on a handle with cleanupInterval = 0 StopCleanup is a no-op: no call
\* ever blocks, however many are made, and a call changes neither the table
\* nor the handle (channel, loop, ticker, options).
C6_StopNoOpWithoutLoop ==
    /\ [](cleanupInterval = 0 =>
            /\ stopWaiting = 0
            /\ StopReturned = stopCalls
            /\ stopCleanup = "nil" /\ loopPc = "none" /\ ticker = NoTicker)
    /\ [][(cleanupInterval = 0 /\ stopCalls' # stopCalls) =>
            /\ last' = Ret("StopCleanup", Nil, Nil, FALSE, Nil)
            /\ UNCHANGED <<rows, now, cleanupInterval, stopCleanup, loopPc,
                           ticker, stopWaiting, hist>>]_vars

\* C6 witness: every StopCleanup call the bound allows has returned on a
\* handle without a loop, the table holding a row
C6_Witness ==
    /\ cleanupInterval = 0
    /\ stopCalls = MaxStopCalls /\ StopReturned = MaxStopCalls
    /\ last.op = "StopCleanup"
    /\ rows # {}

\* rows whose expiry has passed
ExpiredRows == {r \in rows : r.expiry < now}

\* a tick has fired and its sweep has not run yet
SweepDue == loopPc = "sweep" \/ (loopPc = "select" /\ ticker.c)

\* C7: with the loop running and sweeps succeeding, a row whose expiry has
\* passed is removed by the sweep of the next tick: every successful sweep
\* leaves no row with expiry < now, and once a tick is due while such rows
\* exist, the table is eventually free of them, unless the loop is stopped
\* or the sweep fails.
C7_ExpiredRowsSwept ==
    /\ []((last.op = "Sweep" /\ last.err = Nil) => ExpiredRows = {})
    /\ (ExpiredRows # {} /\ SweepDue)
          ~> (\/ ExpiredRows = {}
              \/ loopPc = "exited"
              \/ (last.op = "Sweep" /\ last.err # Nil))

\* C7 witness: a successful sweep has just run and the row of a token whose
\* last Commit has expired is no longer in the table
C7_Witness ==
    /\ last.op = "Sweep" /\ last.err = Nil
    /\ \E t \in Tokens :
          /\ hist[t].st = "committed" /\ hist[t].expiry < now
          /\ RowsOf(rows, t) = {}

\* C8: after a successful Delete(t) with no successful Commit(t) since,
\* Find(t) returns (nil, false, nil), whatever row t had and whatever sweeps
\* ran in between.
C8_DeleteThenFind ==
    /\ \A t \in Tokens :
          hist[t].st = "deleted"
          => FindResult(rows, now, t, FALSE) = Ret("Find", t, Nil, FALSE, Nil)
    /\ (last.op = "Find" /\ last.err = Nil /\ hist[last.token].st = "deleted")
          => last = Ret("Find", last.token, Nil, FALSE, Nil)

\* C8 witness: a Find of a deleted token has returned while the other
\* token is still in the table
C8_Witness ==
    /\ last.op = "Find" /\ last.err = Nil
    /\ hist[last.token].st = "deleted"
    /\ \E r \in rows : r.token # last.token

\* the table after a successful Delete(t)
DeletePost(t) ==
    /\ last'.err = Nil
    /\ RowsOf(rows', t) = {}
    /\ \A u \in Tokens \ {t} : RowsOf(rows', u) = RowsOf(rows, u)
    /\ RowsOf(rows, t) = {} => rows' = rows

\* C9: a Delete(t) whose statement succeeds returns nil; it leaves no row
\* for t and every other token's rows as they were, so with no row for t
\* the table is unchanged.
C9_DeleteOnlyThatToken ==
    [][last'.op = "Delete" =>
          (Delete(last'.token, FALSE) => DeletePost(last'.token))]_vars

\* C9 witness: a Delete has returned nil and another token's row is still
\* in the table
C9_Witness ==
    /\ last.op = "Delete" /\ last.err = Nil
    /\ RowsOf(rows, last.token) = {}
    /\ rows # {}

\* C10: with cleanupInterval = 0 there is no cleanup goroutine and no sweep:
\* a token loses its row only by a Delete, and the table holds exactly the
\* rows last committed and not deleted, expired ones included.
C10_NoLoopNoSweep ==
    /\ [](cleanupInterval = 0 =>
            /\ loopPc = "none"
            /\ last.op \notin {"LoopStart", "Tick", "Sweep"}
            /\ \A t \in Tokens :
                  RowsOf(rows, t) =
                     IF hist[t].st = "committed"
                     THEN {[token |-> t, data |-> hist[t].data,
                            expiry |-> hist[t].expiry]}
                     ELSE {})
    /\ [][(cleanupInterval = 0 /\ \E t \in Tokens :
                RowsOf(rows, t) # {} /\ RowsOf(rows', t) = {})
            => last'.op = "Delete"]_vars

\* C10 witness: on a handle without a loop, at the end of time, a Find has
\* just missed a token whose expired row is still in the table
C10_Witness ==
    /\ cleanupInterval = 0 /\ now = MaxTime
    /\ last.op = "Find" /\ ~last.exists
    /\ \E r \in rows : r.token = last.token /\ r.expiry < now

\* C11: Commits by any number of callers on the same token, interleaved with
\* Find, All, Delete and sweeps, take effect one statement at a time: the
\* table never holds two rows for a token, and every row carries the data
\* and the expiry of one and the same Commit, the last one that succeeded
\* for its token.
C11_CommitAtomic ==
    /\ UniqueTokens
    /\ \A r \in rows : hist[r.token] = WasCommitted(r.data, r.expiry)

\* C11 witness: a Commit has just overwritten the row another Commit with
\* other arguments had written for the same token
C11_Witness ==
    /\ last.op = "Commit" /\ last.upsert = "update"
    /\ RowsOf(rows, last.token) # {}
    /\ now > 0

\* C12: a Commit that repeats the arguments of the Commit just executed
\* leaves the table as that first Commit left it; so does, in any state, a
\* Commit applied twice.
C12_CommitIdempotent ==
    /\ [](\A t \in Tokens, b \in Payloads, e \in Times :
            Upsert(Upsert(rows, t, b, e), t, b, e) = Upsert(rows, t, b, e))
    /\ [][(/\ last.op = "Commit" /\ last.err = Nil
           /\ last'.op = "Commit" /\ last'.err = Nil
           /\ last'.token = last.token
           /\ hist'[last.token] = hist[last.token])
          => (rows' = rows /\ last'.upsert = "same")]_vars

\* C12 witness: a Commit has run on a token whose row already carried the
\* same data and expiry
C12_Witness ==
    /\ last.op = "Commit" /\ last.upsert = "same"
    /\ \E r \in rows : r.token # last.token

\* the step is a Find, All, Commit or Delete whose storage call failed
FailedCallStep ==
    \/ last'.op = "Find" /\ Find(last'.token, TRUE)
    \/ last'.op = "All" /\ All(TRUE)
    \/ /\ last'.op = "Commit" /\ last'.upsert = "none"
       /\ \E b \in Payloads, e \in Times : Commit(last'.token, b, e, TRUE)
    \/ last'.op = "Delete" /\ Delete(last'.token, TRUE)

\* C13: a Find, Commit, Delete or All whose storage call fails returns the
\* error (Find with a nil payload and exists = false, All with a nil map),
\* changes neither the table nor the handle, and leaves every later Find and
\* All answering as before the call.
C13_FailedCallChangesNothing ==
    [][FailedCallStep =>
          /\ last'.err = DbErr
          /\ last'.op = "Find" => (last'.b = Nil /\ ~last'.exists)
          /\ last'.op = "All" => (last'.mapNil /\ last'.sessions = NoSessions)
          /\ UNCHANGED <<rows, now, cleanupInterval, stopCleanup, loopPc,
                         ticker, stopWaiting, stopCalls, hist>>
          /\ \A t \in Tokens :
                FindResult(rows', now', t, FALSE) = FindResult(rows, now, t, FALSE)
          /\ AllResult(rows', now', FALSE) = AllResult(rows, now, FALSE)]_vars

\* C13 witness: a Find has returned the storage error for a token whose row
\* is active
C13_Witness ==
    /\ last.op = "Find" /\ last.err = DbErr
    /\ LiveRows(last.token) # {}

\* C14: the StopCleanup calls blocked on their send while the loop is
\* running, at its select or in the middle of a sweep (each of them was
\* issued while the loop was running), are all released: the loop comes back
\* to the select, takes the signal and exits, and no call is left waiting.
C14_StopWhileRunningReturns ==
    (stopWaiting > 0 /\ loopPc \in {"select", "sweep"})
        ~> (stopWaiting = 0 /\ loopPc = "exited")

\* C15: a sweep runs only on a tick taken from the ticker, once per tick; a
\* sweep that succeeds removes exactly the rows with expiry < now and leaves
\* the others as they were, so no Find and no All answers differently after
\* it.
C15_SweepRemovesExactlyExpired ==
    [][/\ last'.op = "Sweep" => (loopPc = "sweep" /\ loopPc' = "select")
       /\ (loopPc' = "sweep" /\ loopPc # "sweep")
             => (last'.op = "Tick" /\ ticker.c /\ ~ticker'.c)
       /\ (last'.op = "Sweep" /\ last'.err = Nil) =>
             /\ rows' = {r \in rows : r.expiry >= now}
             /\ \A t \in Tokens :
                   FindResult(rows', now', t, FALSE) = FindResult(rows, now, t, FALSE)
             /\ AllResult(rows', now', FALSE) = AllResult(rows, now, FALSE)]_vars

\* C15 witness: a sweep has removed the expired row of one token and left in
\* the table a row that expires now and a row still active
C15_Witness ==
    /\ last.op = "Sweep" /\ last.err = Nil
    /\ \E t \in Tokens :
          hist[t].st = "committed" /\ hist[t].expiry < now /\ RowsOf(rows, t) = {}
    /\ \E r \in rows : r.expiry >= now

\* C16: the step that takes the stop signal puts the loop in its final
\* state; from then on the loop stays exited, takes no tick, runs no sweep,
\* is not started again, takes no second signal (a later sender stays
\* blocked), and only Commit and Delete change the table.
C16_ExitIsTerminal ==
    /\ [](loopPc = "exited" => (~ticker.running /\ StopReturned >= 1))
    /\ [][stopWaiting' < stopWaiting =>
             /\ loopPc = "select" /\ loopPc' = "exited"
             /\ stopWaiting' = stopWaiting - 1]_vars
    /\ [][loopPc = "exited" =>
             /\ loopPc' = "exited"
             /\ last'.op \notin {"LoopStart", "Tick", "Sweep"}
             /\ ticker' = NoTicker
             /\ stopWaiting' >= stopWaiting
             /\ rows' # rows => last'.op \in {"Commit", "Delete"}]_vars

\* C16 witness: with the loop exited, time has passed, an expired row is
\* still in the table and a StopCleanup call is left waiting
C16_Witness ==
    /\ loopPc = "exited" /\ stopWaiting > 0 /\ stopCalls = 2
    /\ now = MaxTime
    /\ \E r \in rows : r.expiry < now

\* an error came back from Find, All, Commit or Delete
CallReturnedError ==
    last'.op \in {"Find", "All", "Commit", "Delete"} /\ last'.err # Nil

\* C17: a sweep whose delete fails leaves the table and the ticker as they
\* were and the loop at its select; callers get an error only from their own
\* failing statement; and with a tick waiting, the loop goes on to the next
\* sweep unless it is stopped.
C17_FailedSweepIsolated ==
    /\ [][(last'.op = "Sweep" /\ last'.err # Nil) =>
             /\ loopPc' = "select"
             /\ ticker'.running
             /\ UNCHANGED <<rows, now, cleanupInterval, stopCleanup, ticker,
                            stopWaiting, stopCalls, hist>>]_vars
    /\ [][CallReturnedError => FailedCallStep]_vars
    /\ (last.op = "Sweep" /\ last.err # Nil /\ ticker.c)
          ~> (loopPc \in {"sweep", "exited"})

\* C17 witness: a sweep has failed, the expired rows are still in the table
\* and the loop is back at its select with the next tick waiting
C17_Witness ==
    /\ last.op = "Sweep" /\ last.err # Nil
    /\ ExpiredRows # {}
    /\ loopPc = "select" /\ ticker.c

\* C18: in every state of the loop and of the StopCleanup callers (loop not
\* started, at its select, in a sweep, exited; no caller, one or several
\* blocked on the send) every Find, Commit, Delete and All can run; and a Find,
\* Commit, Delete or All leaves the loop, its ticker, the channel and the
\* StopCleanup callers as they were, so it never takes away a tick or a handoff that was
\* possible.
C18_CallsAndLoopIndependent ==
    /\ [](/\ \A t \in Tokens, f \in BOOLEAN : ENABLED Find(t, f)
          /\ \A f \in BOOLEAN : ENABLED All(f)
          /\ \A t \in Tokens, b \in Payloads, e \in Times, f \in BOOLEAN :
                ENABLED Commit(t, b, e, f)
          /\ \A t \in Tokens, f \in BOOLEAN : ENABLED Delete(t, f)
          /\ (loopPc = "select" /\ ticker.c) => ENABLED LoopTick
          /\ loopPc = "sweep" => ENABLED LoopSweep(FALSE)
          /\ (loopPc = "select" /\ stopWaiting > 0) => ENABLED StopHandoff)
    /\ [][last'.op \in {"Find", "All", "Commit", "Delete"} =>
             UNCHANGED <<loopPc, ticker, stopCleanup, stopWaiting, stopCalls,
                         cleanupInterval, now>>]_vars

\* C18 witness: a Commit has completed while the loop is in the middle of a
\* sweep and StopCleanup calls are blocked on their send
C18_Witness ==
    /\ last.op = "Commit" /\ last.err = Nil
    /\ loopPc = "sweep" /\ stopWaiting > 0

\* the table of a store that has seen the same Commits and Deletes and no
\* sweep: one row per token whose last successful write is a Commit
NoSweepRows ==
    {[token |-> t, data |-> hist[t].data, expiry |-> hist[t].expiry] :
        t \in {u \in Tokens : hist[u].st = "committed"}}

\* C19: every Find and every All answers as it would on the table of a store
\* that has seen the same Commits, Deletes and time and no sweep at all.
C19_SweepsInvisible ==
    /\ \A t \in Tokens, f \in BOOLEAN :
          FindResult(rows, now, t, f) = FindResult(NoSweepRows, now, t, f)
    /\ \A f \in BOOLEAN : AllResult(rows, now, f) = AllResult(NoSweepRows, now, f)
    /\ last.op = "Find" =>
          last = FindResult(NoSweepRows, now, last.token, last.err # Nil)
    /\ last.op = "All" => last = AllResult(NoSweepRows, now, last.err # Nil)
    /\ rows \subseteq NoSweepRows
    /\ cleanupInterval = 0 => rows = NoSweepRows

\* C19 witness: All has answered with one token after a sweep removed the
\* expired row of the other
C19_Witness ==
    /\ last.op = "All" /\ Cardinality(DOMAIN last.sessions) = 1
    /\ rows # NoSweepRows

\* C20: a row whose expiry equals now is not active: Find misses it and All
\* omits it; a sweep running at that instant leaves it in the table; a row
\* leaves the table in a sweep only when its expiry is smaller than now.
C20_BoundaryRow ==
    /\ [](\A r \in rows : r.expiry = now =>
             /\ FindResult(rows, now, r.token, FALSE) = Ret("Find", r.token, Nil, FALSE, Nil)
             /\ r.token \notin DOMAIN AllResult(rows, now, FALSE).sessions)
    /\ [][last'.op = "Sweep" =>
             /\ \A r \in rows : r.expiry = now => r \in rows'
             /\ \A r \in rows \ rows' : r.expiry < now]_vars

\* C20 witness: a sweep has just succeeded and a row expiring now is still
\* in the table
C20_Witness ==
    /\ last.op = "Sweep" /\ last.err = Nil
    /\ \E r \in rows : r.expiry = now
====
